---- MODULE Spec2Model ----
(***************************************************************************)
(* Model of the cloudflare_exporter ingestion core: the scrape scheduler   *)
(* with rate-limit backoff (scrapeCloudflare), one ingestion pass          *)
(* (scrapeCloudflareOnce, getZoneAnalytics, getZoneAnalyticsKind), the     *)
(* extraction functions of parsing.go and the timestamped metric store.    *)
(*                                                                         *)
(* Time is counted in minutes: the grace period and the default scrape     *)
(* interval are 5, maxTimeWindow is 60.  Time 0 is Go's zero time.Time{}.  *)
(***************************************************************************)
EXTENDS Integers, Sequences, FiniteSets, TLC

VARIABLES
    now,                      \* wall clock (time.Now())
    source,                   \* records held by the analytics source
    cancelled,                \* cfScrapeCtx has been cancelled
    initialScrapeImmediately, \* the hidden development flag
    pc,                       \* position of the scrape goroutine
    result,                   \* what scrapeCloudflare returned
    origin,                   \* who called the current/last pass
    err,                      \* what the last scrapeCloudflareOnce returned
    ticks,                    \* ticks handled so far
    skipNextScrapes,
    consecutiveRateLimitErrs,
    cfScrapes,
    cfScrapeErrs,
    cfLastSuccessTimestampSeconds,
    zonesActive,
    scrapeLock,               \* TRUE while the mutex is held
    zones,                    \* zone ids returned by getZones in this pass
    kind,                     \* index of the dataset being fetched (1..3)
    todo,                     \* zones the range loop has not visited yet
    cur,                      \* zone of the pagination loop, or NoZone
    lastDateTimeCounted,      \* local of getZoneAnalyticsKind
    req,                      \* variables of the query in flight
    gqlResp,                  \* response of the query in flight
    lastSeenBucketTimes,      \* the watermark table
    store,                    \* TimestampedMetricVec.metrics of every vector
    ledger,                   \* history: every distinct record ever added
    passAdds,                 \* history: Add calls made by the current pass
    observed,                 \* history: passAdds seen by a Collect in this pass
    halfSeen,                 \* history: a Collect saw part of a pass
    emitted,                  \* what the last gathering sent to its channel
    skipped,                  \* history: ticks skipped since the last pass returned
    conc,                     \* the goroutines using the store, step by step
    parse,                    \* a call of parseZoneIDs: arguments and results
    faults                    \* collaborator faults the environment may still inject

vars == <<now, source, cancelled, initialScrapeImmediately, pc, result, origin,
          err, ticks, skipNextScrapes, consecutiveRateLimitErrs, cfScrapes,
          cfScrapeErrs, cfLastSuccessTimestampSeconds, zonesActive, scrapeLock,
          zones, kind, todo, cur, lastDateTimeCounted, req, gqlResp,
          lastSeenBucketTimes, store, ledger, passAdds, observed, halfSeen,
          emitted, skipped, conc, parse, faults>>

schedVars == <<skipNextScrapes, consecutiveRateLimitErrs, cfScrapeErrs,
               cfLastSuccessTimestampSeconds, scrapeLock, err, pc, result>>
passVars == <<zones, kind, todo, cur, lastDateTimeCounted, req, gqlResp>>
envVars == <<source, cancelled, initialScrapeImmediately>>
auxVars == <<conc, parse>>

----------------------------------------------------------------------------
\* Bounds of the model

StartTime == 100    \* wall clock when the process starts
MaxTicks == 3       \* ticks handled in one behaviour
MaxEvents == 2      \* records of the source, injected faults, development flag;
                    \* additions to one point when the store is driven alone
apiMaxLimit == 2    \* page size (10000 in the source, scaled)
MaxLabelLen == 1    \* characters of a label value handed to a metric vector
MaxResult == 2      \* zones of a zones response
MaxReplay == 3      \* events when one key is replayed in development mode

\* Program constants, in minutes
ZeroTime == 0
graceWindow == 5
scrapeInterval == 5
maxTimeWindow == 60
metricsMaxAge == 15

Zones == {"z1", "z2"}
NoZone == "none"
zoneNames == [z \in Zones |-> IF z = "z1" THEN "n1" ELSE "n2"]
Labels == {"a", "b"}
LabelsOf == <<{"a"}, {"a", "b"}, {"a"}>>
Kinds == 1..3
metricOf == <<"httpCountryRequests", "firewallEvents", "healthCheckEvents">>
RecTimes == {StartTime + 4, StartTime + 5}
TickGaps == {scrapeInterval, maxTimeWindow}

\* the time between ticks n and n + 1: the ticker period, except that the
\* second tick may be handled an hour late
TickGapsAt(n) == IF n = 1 THEN TickGaps ELSE {scrapeInterval}

\* Error messages a pass can return
NoErr == "nil"
ErrLimit == "graphql: limit reached, please try again later"
ErrDeadline == "context deadline exceeded"
ErrCanceled == "context canceled"
ErrZoneCount == "expected 1 zone, got 0"
ErrZoneCountMany == "expected 1 zone, got 2"
ErrParse == "parsing time: cannot parse"
TransportErrs == {ErrLimit, ErrDeadline}

\* variant: every error is taken for a rate limit
ContainsLimitAnyError(e) == e # NoErr

\* strings.Contains(err.Error(), "limit")
ContainsLimit(e) == e = ErrLimit

EmptyResp == [zones |-> <<>>]

\* no request in flight
NoReq == [zone |-> NoZone, start_time |-> ZeroTime, limit |-> 0]

\* no call of parseZoneIDs made
NoParse == [apiRespBody |-> <<>>, zonesFilter |-> <<>>, zones |-> <<>>,
            err |-> "none"]

\* no goroutine is inside the store: the writer (the ingestion pass) and the
\* reader (a gathering) are idle
NoConc ==
    [w |-> [pc |-> "idle", op |-> "none", point |-> <<>>, v |-> 0, ts |-> 0,
            before |-> [value |-> 0, timestamp |-> 0]],
     r |-> [pc |-> "idle", left |-> {}, point |-> <<>>, timestamp |-> 0,
            out |-> {}],
     snaps |-> {},
     created |-> {}]

\* a call op(v, ts) on point p that has returned
Call(op, p, v, ts) ==
    [pc |-> "idle", op |-> op, point |-> p, v |-> v, ts |-> ts,
     before |-> [value |-> 0, timestamp |-> 0]]

\* nothing gathered yet / the samples a gathering sent to its channel
NotGathered == [gathered |-> FALSE, samples |-> {}]
Gathered(S) == [gathered |-> TRUE, samples |-> S]

----------------------------------------------------------------------------
\* The analytics source

\* the zone whose records of dataset k the source may hold
ZoneOfKind == <<"z1", "z2", "z1">>

\* Records the source may hold.  Only the firewall dataset carries two
\* label values, a malformed datetime occurs on the latest bucket only, and
\* each dataset has records for one zone, the other zone staying quiet.
Universe ==
    {r \in [kind : Kinds, zone : Zones, t : RecTimes, wf : BOOLEAN,
            label : Labels, count : {1}] :
        /\ r.label \in LabelsOf[r.kind]
        /\ r.zone = ZoneOfKind[r.kind]
        /\ ~r.wf => (r.label = "a" /\ r.t = StartTime + 5)}

\* httpRequests1mGroups has one group per datetime; the other two datasets
\* group by further dimensions, so several groups can share a datetime.
WellFormedSource(S) ==
    \A r, q \in S :
        (r.kind = 1 /\ q.kind = 1 /\ r.zone = q.zone /\ r.t = q.t)
            => r.wf = q.wf

RECURSIVE SubsetsUpTo(_, _)
SubsetsUpTo(U, n) ==
    IF n = 0 THEN {{}}
    ELSE LET smaller == SubsetsUpTo(U, n - 1)
         IN smaller \cup {S \cup {r} : S \in smaller, r \in U}

Sources == {S \in SubsetsUpTo(Universe, MaxEvents) : WellFormedSource(S)}

Min(a, b) == IF a < b THEN a ELSE b

\* The records a query for dataset k of zone z returns: datetime_gt start,
\* and nothing the source has not recorded yet.
Visible(k, z, start) ==
    {r \in source : r.kind = k /\ r.zone = z /\ r.t > start /\ r.t <= now}

LabelOrder == <<"a", "b">>

\* One httpRequests1mGroups bucket: the datetime and the countryMap.
Bucket(V, t) ==
    LET At == {r \in V : r.t = t}
        Has(l) == \E r \in At : r.label = l
        ls == SelectSeq(LabelOrder, Has)
    IN [datetime |-> [wf |-> \A r \in At : r.wf, t |-> t],
        entries |-> [i \in 1..Len(ls) |->
                       [label |-> ls[i],
                        count |-> (CHOOSE r \in At : r.label = ls[i]).count]]]

\* One firewallEventsAdaptiveGroups / healthCheckEventsGroups group.
Group(r) ==
    [datetime |-> [wf |-> r.wf, t |-> r.t],
     entries |-> <<[label |-> r.label, count |-> r.count]>>]

GroupSet(k, z, start) ==
    LET V == Visible(k, z, start)
    IN IF k = 1 THEN {Bucket(V, t) : t \in {r.t : r \in V}}
       ELSE {Group(r) : r \in V}

\* orderBy: [datetime_ASC] with limit: the first apiMaxLimit groups in
\* ascending datetime order; the order among equal datetimes is the source's.
Pages(G) ==
    LET n == Min(Cardinality(G), apiMaxLimit)
    IN {s \in [1..n -> G] :
          /\ \A i, j \in 1..n : i < j => s[i] # s[j] /\ s[i].datetime.t <= s[j].datetime.t
          /\ \A g \in G : (\A i \in 1..n : s[i] # g)
                => \A i \in 1..n : s[i].datetime.t <= g.datetime.t}

----------------------------------------------------------------------------
\* The timestamped metric store (TimestampedMetricVec / TimestampedMetric)

NewMetric == [value |-> 0, timestamp |-> ZeroTime]

\* TimestampedMetricVec.WithLabelValues: create the point on first access
WithLabelValues(st, p) ==
    IF p \in DOMAIN st THEN st ELSE (p :> NewMetric) @@ st

\* variant: Add replaces the value
AddReplaces(m, v, ts) == [value |-> v, timestamp |-> ts]

\* TimestampedMetric.Add
Add(m, v, ts) == [value |-> m.value + v, timestamp |-> ts]

AddTo(st, p, v, ts) ==
    LET st1 == WithLabelValues(st, p)
    IN [st1 EXCEPT ![p] = Add(st1[p], v, ts)]

\* the value of point p, 0 while it does not exist
Value(st, p) == IF p \in DOMAIN st THEN st[p].value ELSE 0

\* TimestampedMetric.Set
Set(m, v, ts) == [value |-> v, timestamp |-> ts]

\* variant: no age cutoff
MetricCollectNoCutoff(m, t) ==
    {[value |-> m.value,
      timestamp |-> IF m.timestamp = ZeroTime THEN t ELSE m.timestamp]}

\* TimestampedMetric.Collect at wall clock t: the samples sent to the channel
MetricCollect(m, t) ==
    LET timestamp == IF m.timestamp = ZeroTime THEN t ELSE m.timestamp
    IN IF t - metricsMaxAge > m.timestamp
       THEN {}
       ELSE {[value |-> m.value, timestamp |-> timestamp]}

\* TimestampedMetricVec.Collect: every point of the map collects
VecCollect(st, t) ==
    UNION {{[point |-> p, value |-> c.value, timestamp |-> c.timestamp] :
               c \in MetricCollect(st[p], t)} : p \in DOMAIN st}

----------------------------------------------------------------------------
\* Extraction (parsing.go)

\* time.Parse(time.RFC3339, s)
ParseTime(d) == IF d.wf THEN [err |-> NoErr, t |-> d.t]
                ELSE [err |-> ErrParse, t |-> ZeroTime]

\* variant: Time.After replaced by "not before"
AfterOrEqual(a, b) == a >= b

\* Time.After
After(a, b) == a > b

\* The inner loops of an extraction function: one Add per entry of the
\* group, each stamped with the group's time.
RECURSIVE AddEntries(_, _, _, _, _, _)
AddEntries(acc, metric, zname, entries, ts, j) ==
    IF j > Len(entries) THEN acc
    ELSE LET p == <<metric, zname, entries[j].label>>
         IN AddEntries(
              [store |-> AddTo(acc.store, p, entries[j].count, ts),
               counted |-> acc.counted \cup {<<p, ts, entries[j].count>>},
               adds |-> acc.adds + 1],
              metric, zname, entries, ts, j + 1)

\* The loop over the groups of the page, shared by the three extraction
\* functions: returns (len(groups), lastDateTimeCounted, err) and the store.
RECURSIVE ExtractGroups(_, _, _, _, _, _)
ExtractGroups(groups, metric, zname, last, acc, i) ==
    IF i > Len(groups)
    THEN [results |-> Len(groups), last |-> last, err |-> NoErr,
          store |-> acc.store, counted |-> acc.counted, adds |-> acc.adds]
    ELSE LET parsed == ParseTime(groups[i].datetime)
         IN IF parsed.err # NoErr
            THEN [results |-> Len(groups), last |-> ZeroTime, err |-> parsed.err,
                  store |-> acc.store, counted |-> acc.counted, adds |-> acc.adds]
            ELSE IF After(parsed.t, last)
            THEN ExtractGroups(groups, metric, zname, parsed.t,
                     AddEntries(acc, metric, zname, groups[i].entries, parsed.t, 1),
                     i + 1)
            ELSE ExtractGroups(groups, metric, zname, last, acc, i + 1)

Acc0(st) == [store |-> st, counted |-> {}, adds |-> 0]

\* variant: the running maximum starts from the zero time
extractZoneHTTPRequestsFromZero(zone, names, last, st) ==
    ExtractGroups(zone.groups, metricOf[1], names[zone.zoneTag], ZeroTime, Acc0(st), 1)

extractZoneHTTPRequests(zone, names, last, st) ==
    ExtractGroups(zone.groups, metricOf[1], names[zone.zoneTag], last, Acc0(st), 1)

extractZoneFirewallEvents(zone, names, last, st) ==
    ExtractGroups(zone.groups, metricOf[2], names[zone.zoneTag], last, Acc0(st), 1)

extractZoneHealthCheckEvents(zone, names, last, st) ==
    ExtractGroups(zone.groups, metricOf[3], names[zone.zoneTag], last, Acc0(st), 1)

\* variant: every dataset is handed the extraction of HTTP requests
extractAlwaysHTTP(k, zone, names, last, st) ==
    extractZoneHTTPRequests(zone, names, last, st)

\* the extractFunc handed to getZoneAnalyticsKind by getZoneAnalytics
extract(k, zone, names, last, st) ==
    IF k = 1 THEN extractZoneHTTPRequests(zone, names, last, st)
    ELSE IF k = 2 THEN extractZoneFirewallEvents(zone, names, last, st)
    ELSE extractZoneHealthCheckEvents(zone, names, last, st)

----------------------------------------------------------------------------
\* Initial state: main() before runGroup.Run()

\* getZones returns the zones of the account, refreshed on every pass
ZoneLists == {Zones}

NoTimes == [k \in Kinds |-> [z \in Zones |-> ZeroTime]]

\* main() with the analytics source holding one of the record sets S, the
\* development flag drawn from D, and a budget of events (records, injected
\* faults, the flag)
InitFrom(S, D, budget) ==
    /\ now = StartTime
    /\ source \in S
    /\ initialScrapeImmediately \in D
    /\ faults = budget - Cardinality(source)
                  - (IF initialScrapeImmediately THEN 1 ELSE 0)
    /\ faults >= 0
    /\ cancelled = FALSE
    /\ pc = "init"
    /\ result = "running"
    /\ origin = "none"
    /\ err = "none"
    /\ ticks = 0
    /\ skipNextScrapes = 0
    /\ consecutiveRateLimitErrs = 0
    /\ cfScrapes = 0
    /\ cfScrapeErrs = 0
    /\ cfLastSuccessTimestampSeconds = 0
    /\ zonesActive = 0
    /\ scrapeLock = FALSE
    /\ zones = {}
    /\ kind = 0
    /\ todo = {}
    /\ cur = NoZone
    /\ lastDateTimeCounted = ZeroTime
    /\ req = NoReq
    /\ gqlResp = EmptyResp
    /\ lastSeenBucketTimes = NoTimes
    /\ store = <<>>
    /\ ledger = {}
    /\ passAdds = 0
    /\ observed = -1
    /\ halfSeen = FALSE
    /\ emitted = NotGathered
    /\ skipped = 0
    /\ conc = NoConc
    /\ parse = NoParse

Init == InitFrom(Sources, BOOLEAN, MaxEvents)

----------------------------------------------------------------------------
\* Collaborator failures

\* A request made with a cancelled context fails with ErrCanceled; otherwise
\* the transport may fail while the environment has faults left to inject.
CallFails(e) ==
    IF cancelled
    THEN e = ErrCanceled /\ UNCHANGED faults
    ELSE faults > 0 /\ e \in TransportErrs /\ faults' = faults - 1

CallErrs == {ErrCanceled} \cup TransportErrs

CallMaySucceed == ~cancelled

----------------------------------------------------------------------------
\* scrapeCloudflare: what the loop does with the result of a pass

\* variant: the last skipped tick runs a pass
ShouldSkipButLast(n) == n > 1

\* line 150
ShouldSkip(n) == n > 0

\* variant: the skip count doubles
OnRateLimitDoubling(c) ==
    [consecutiveRateLimitErrs |-> c + 1, skipNextScrapes |-> 2 * (c + 1)]

\* variant: one tick is skipped however many errors came before
OnRateLimitOnce(c) ==
    [consecutiveRateLimitErrs |-> c + 1, skipNextScrapes |-> 1]

\* lines 173-174
OnRateLimit(c) == [consecutiveRateLimitErrs |-> c + 1, skipNextScrapes |-> c + 1]

\* variant: a success clears the skip count only
OnSuccessKeepsCount ==
    [consecutiveRateLimitErrs |-> consecutiveRateLimitErrs, skipNextScrapes |-> 0]

\* lines 179-180
OnSuccess == [consecutiveRateLimitErrs |-> 0, skipNextScrapes |-> 0]

\* variant: the error of a pass is returned to main
AfterPassErrReturn == "done"

\* where the loop goes after a pass that returned an error (line 176: break)
AfterPassErr == "loop"

ResetPass ==
    /\ zones' = {}
    /\ kind' = 0
    /\ todo' = {}
    /\ cur' = NoZone
    /\ lastDateTimeCounted' = ZeroTime
    /\ req' = NoReq
    /\ gqlResp' = EmptyResp

\* variant: the lock is released at the end of a successful pass only
LockAfterReturnNotDeferred(e) == e # NoErr

\* line 189: the deferred Unlock runs on every return of scrapeCloudflareOnce
LockAfterReturn(e) == FALSE

\* scrapeCloudflareOnce returns e after `adds` further Add calls (deferred
\* Unlock, lines 208-215) and its caller in scrapeCloudflare handles it
\* (lines 141-145 or 156-180).
Finish(e, adds) ==
    /\ ResetPass
    /\ scrapeLock' = LockAfterReturn(e)
    /\ err' = e
    /\ halfSeen' = (halfSeen \/ (observed > 0 /\ observed < passAdds + adds))
    /\ passAdds' = 0
    /\ observed' = -1
    /\ emitted' = NotGathered
    /\ skipped' = 0
    /\ cfLastSuccessTimestampSeconds' =
          IF e = NoErr THEN now ELSE cfLastSuccessTimestampSeconds
    /\ cfScrapeErrs' = IF e = NoErr THEN cfScrapeErrs ELSE cfScrapeErrs + 1
    /\ IF origin = "initial"
       THEN /\ pc' = "loop"
            /\ UNCHANGED <<skipNextScrapes, consecutiveRateLimitErrs, result>>
       ELSE IF e # NoErr
       THEN /\ pc' = AfterPassErr
            /\ result' = IF AfterPassErr = "done" THEN e ELSE result
            /\ IF ContainsLimit(e)
               THEN LET b == OnRateLimit(consecutiveRateLimitErrs)
                    IN /\ consecutiveRateLimitErrs' = b.consecutiveRateLimitErrs
                       /\ skipNextScrapes' = b.skipNextScrapes
               ELSE UNCHANGED <<skipNextScrapes, consecutiveRateLimitErrs>>
       ELSE /\ pc' = "loop"
            /\ skipNextScrapes' = OnSuccess.skipNextScrapes
            /\ consecutiveRateLimitErrs' = OnSuccess.consecutiveRateLimitErrs
            /\ UNCHANGED result

\* what Finish leaves alone is left alone by a step that stays in the pass
StayInPass ==
    UNCHANGED <<skipNextScrapes, consecutiveRateLimitErrs, cfScrapeErrs,
                cfLastSuccessTimestampSeconds, scrapeLock, err, result,
                observed, halfSeen, emitted, skipped>>

\* variant: the scrape is not counted
BeginPassUncounted(o) ==
    /\ ~scrapeLock
    /\ scrapeLock' = TRUE
    /\ UNCHANGED cfScrapes
    /\ origin' = o
    /\ pc' = "getZones"

\* scrapeCloudflareOnce, lines 188-195: take the lock (Lock blocks while it
\* is held), count the scrape
BeginPass(o) ==
    /\ ~scrapeLock
    /\ scrapeLock' = TRUE
    /\ cfScrapes' = cfScrapes + 1
    /\ origin' = o
    /\ pc' = "getZones"

----------------------------------------------------------------------------
\* Actions

\* scrapeCloudflare lines 134-136 with initializeVectors
InitializeVectors ==
    /\ pc = "init"
    /\ \/ \E e \in CallErrs :
             /\ CallFails(e)
             /\ pc' = "done"
             /\ result' = e
             /\ UNCHANGED store
       \/ /\ CallMaySucceed
          /\ \E initialZones \in ZoneLists :
               LET initialCountries ==
                       {r.label : r \in {q \in source :
                            q.kind = 1 /\ q.zone \in initialZones /\ q.t <= now}}
                   points == {<<metricOf[1], zoneNames[z], c>> :
                                  z \in initialZones, c \in initialCountries}
               IN store' = [p \in points |-> NewMetric]
          /\ pc' = IF initialScrapeImmediately THEN "initial" ELSE "loop"
          /\ UNCHANGED <<result, faults>>
    /\ UNCHANGED <<auxVars, skipped, now, source, cancelled, initialScrapeImmediately, origin,
                   err, ticks, skipNextScrapes,
                   consecutiveRateLimitErrs, cfScrapes, cfScrapeErrs,
                   cfLastSuccessTimestampSeconds, zonesActive, scrapeLock,
                   passVars, lastSeenBucketTimes, ledger, passAdds, observed,
                   halfSeen, emitted>>

\* scrapeCloudflare lines 138-141: the initial scrape of development mode
InitialScrape ==
    /\ pc = "initial"
    /\ BeginPass("initial")
    /\ UNCHANGED <<auxVars, skipped, now, envVars, result, err, ticks, skipNextScrapes,
                   consecutiveRateLimitErrs, cfScrapeErrs,
                   cfLastSuccessTimestampSeconds, zonesActive, passVars,
                   lastSeenBucketTimes, store, ledger, passAdds, observed,
                   halfSeen, emitted, faults>>

\* case <-ticker, lines 149-156: d is the time since the previous tick
Tick(d) ==
    /\ pc = "loop"
    /\ ticks < MaxTicks
    /\ now' = now + d
    /\ ticks' = ticks + 1
    /\ IF ShouldSkip(skipNextScrapes)
       THEN /\ skipNextScrapes' = skipNextScrapes - 1
            /\ skipped' = skipped + 1
            /\ UNCHANGED <<pc, origin, scrapeLock, cfScrapes>>
       ELSE /\ BeginPass("tick")
            /\ UNCHANGED <<skipNextScrapes, skipped>>
    /\ UNCHANGED <<auxVars, envVars, result, err, consecutiveRateLimitErrs, cfScrapeErrs,
                   cfLastSuccessTimestampSeconds, zonesActive, passVars,
                   lastSeenBucketTimes, store, ledger, passAdds, observed,
                   halfSeen, emitted, faults>>

\* variant: the closed context is looked at only when no tick is to be skipped
CtxDoneWhenIdle ==
    /\ pc = "loop"
    /\ cancelled
    /\ skipNextScrapes = 0
    /\ pc' = "done"
    /\ result' = NoErr
    /\ UNCHANGED <<auxVars, skipped, now, envVars, origin, err, ticks, skipNextScrapes,
                   consecutiveRateLimitErrs, cfScrapes, cfScrapeErrs,
                   cfLastSuccessTimestampSeconds, zonesActive, scrapeLock,
                   passVars, lastSeenBucketTimes, store, ledger, passAdds,
                   observed, halfSeen, emitted, faults>>

\* case <-ctx.Done(), lines 181-182
CtxDone ==
    /\ pc = "loop"
    /\ cancelled
    /\ pc' = "done"
    /\ result' = NoErr
    /\ UNCHANGED <<auxVars, skipped, now, envVars, origin, err, ticks, skipNextScrapes,
                   consecutiveRateLimitErrs, cfScrapes, cfScrapeErrs,
                   cfLastSuccessTimestampSeconds, zonesActive, scrapeLock,
                   passVars, lastSeenBucketTimes, store, ledger, passAdds,
                   observed, halfSeen, emitted, faults>>

\* the run group's interrupt function: cancelCfScrape()
Cancel ==
    /\ ~cancelled
    /\ pc # "done"
    /\ cancelled' = TRUE
    /\ UNCHANGED <<auxVars, skipped, now, source, initialScrapeImmediately, pc, result, origin,
                   err, ticks, skipNextScrapes, consecutiveRateLimitErrs,
                   cfScrapes, cfScrapeErrs, cfLastSuccessTimestampSeconds,
                   zonesActive, scrapeLock, passVars, lastSeenBucketTimes,
                   store, ledger, passAdds, observed, halfSeen, emitted,
                   faults>>

\* scrapeCloudflareOnce lines 199-206: getZones, zonesActive.Set, and the
\* entry into getZoneAnalytics
GetZones ==
    /\ pc = "getZones"
    /\ \/ \E e \in CallErrs :
             /\ CallFails(e)
             /\ Finish(e, 0)
             /\ UNCHANGED zonesActive
       \/ /\ CallMaySucceed
          /\ \E zs \in ZoneLists :
               /\ zonesActive' = Cardinality(zs)
               /\ zones' = zs
               /\ kind' = 1
               /\ todo' = zs
               /\ pc' = "query"
               /\ UNCHANGED <<cur, lastDateTimeCounted, req, gqlResp, passAdds,
                              faults>>
               /\ StayInPass
    /\ UNCHANGED <<auxVars, now, envVars, origin, ticks, cfScrapes, lastSeenBucketTimes,
                   store, ledger>>

\* variant: the table entry is used as it is
LastSeenAsStored(stored, t) == stored

\* lines 306-309: the watermark read at the top of the page loop
LastSeen(stored, t) ==
    IF stored = ZeroTime THEN t - scrapeInterval ELSE stored

\* variant: no grace period
start_timeNoGrace(last) == last

\* line 316: the start_time variable of the request
start_time(last) == last - graceWindow

\* the variables of the request: zone and start_time (lines 311, 316) and
\* limit (makeGraphqlRequest, line 355)
Request(z, last) ==
    [zone |-> z, start_time |-> start_time(last), limit |-> apiMaxLimit]

\* the analytics source answers a request with a page for the zone asked
Responses(k, r) ==
    {[zones |-> <<[zoneTag |-> r.zone, groups |-> page]>>] :
        page \in Pages(GroupSet(k, r.zone, r.start_time))}

\* a response that does not hold exactly one zone
BadResponses(r) ==
    {EmptyResp,
     [zones |-> <<[zoneTag |-> r.zone, groups |-> <<>>],
                  [zoneTag |-> r.zone, groups |-> <<>>]>>]}

\* getZoneAnalyticsKind lines 303-320: the next zone of the range loop (or
\* the same zone again after a full page), the watermark read, the query
Query ==
    /\ pc = "query"
    /\ \E z \in (IF cur = NoZone THEN todo ELSE {cur}) :
         LET last == LastSeen(lastSeenBucketTimes[kind][z], now)
         IN \/ \E e \in CallErrs :
                  /\ CallFails(e)
                  /\ Finish(e, 0)
            \/ /\ CallMaySucceed
               /\ cur' = z
               /\ todo' = todo \ {z}
               /\ lastDateTimeCounted' = last
               /\ req' = Request(z, last)
               /\ \/ /\ faults > 0
                     /\ faults' = faults - 1
                     /\ gqlResp' \in BadResponses(req')
                  \/ /\ UNCHANGED faults
                     /\ gqlResp' \in Responses(kind, req')
               /\ pc' = "extract"
               /\ UNCHANGED <<zones, kind, passAdds>>
               /\ StayInPass
    /\ UNCHANGED <<auxVars, now, envVars, origin, ticks, cfScrapes, zonesActive,
                   lastSeenBucketTimes, store, ledger>>

\* variant: the window is never capped
CapNever(last, t) == last

\* variant: the cap is applied to every page
CapAlways(last, t) == t - maxTimeWindow

\* lines 332-341: the watermark stored after a page
CapIfStale(last, t) ==
    IF t - last > maxTimeWindow THEN t - maxTimeWindow ELSE last

\* variant: a failing extraction's zero time is written too
WatermarkAfterErased(old, x, t) ==
    IF x.err # NoErr THEN x.last ELSE CapIfStale(x.last, t)

\* variant: the entry is written before the error of the extraction is checked
WatermarkAfterUnchecked(old, x, t) == CapIfStale(x.last, t)

\* lines 328-341: the entry of the table after a page, given what it held
\* and what the extraction function returned
WatermarkAfter(old, x, t) ==
    IF x.err # NoErr THEN old ELSE CapIfStale(x.last, t)

\* variant: any non-empty response is extracted
ZoneCountAtLeastOne(resp) == Len(resp.zones) >= 1

\* line 322: the response holds exactly one zone
ZoneCountOK(resp) == Len(resp.zones) = 1

\* the error of lines 323-325
ErrZoneCountOf(resp) ==
    IF Len(resp.zones) = 0 THEN ErrZoneCount ELSE ErrZoneCountMany

\* variant: the page loop never repeats
LastPageAlways(results) == TRUE

\* line 344: the page loop breaks
LastPage(results) == results < apiMaxLimit

\* variant: the table is written under the name of the zone
TableKeyByName(zone) == zoneNames[zone.zoneTag]

\* lines 332 and 340: the key under which the table is written
TableKey(zone) == zone.zoneTag

\* the page loop and the range loops go on (lines 344-348, 278-296)
Continue(k, td, c) ==
    /\ kind' = k
    /\ todo' = td
    /\ cur' = c
    /\ lastDateTimeCounted' = ZeroTime
    /\ req' = NoReq
    /\ gqlResp' = EmptyResp
    /\ pc' = "query"
    /\ UNCHANGED zones
    /\ StayInPass

\* getZoneAnalyticsKind lines 322-347 for the response in flight, and what
\* follows when this was the last page of the pass
Extract ==
    /\ pc = "extract"
    /\ IF ~ZoneCountOK(gqlResp)
       THEN /\ Finish(ErrZoneCountOf(gqlResp), 0)
            /\ UNCHANGED <<lastSeenBucketTimes, store, ledger>>
       ELSE LET zone == gqlResp.zones[1]
                x == extract(kind, zone, zoneNames, lastDateTimeCounted, store)
            IN /\ store' = x.store
               /\ ledger' = ledger \cup x.counted
               /\ lastSeenBucketTimes' =
                     [lastSeenBucketTimes EXCEPT ![kind][TableKey(zone)] =
                         WatermarkAfter(@, x, now)]
               /\ IF x.err # NoErr
                  THEN Finish(x.err, x.adds)
                  ELSE IF LastPage(x.results)
                          THEN IF todo # {}
                               THEN Continue(kind, todo, NoZone) /\ passAdds' = passAdds + x.adds
                               ELSE IF kind < 3
                               THEN Continue(kind + 1, zones, NoZone) /\ passAdds' = passAdds + x.adds
                               ELSE Finish(NoErr, x.adds)
                          ELSE Continue(kind, todo, cur) /\ passAdds' = passAdds + x.adds
    /\ UNCHANGED <<auxVars, now, envVars, origin, ticks, cfScrapes, zonesActive, faults>>

\* promhttp.Handler(): the registry gathers every collector; no lock is
\* taken.  Only a gathering that sees additions of a running pass is recorded.
Collect ==
    /\ scrapeLock
    /\ passAdds > 0
    /\ observed # passAdds
    /\ observed' = passAdds
    /\ emitted' = Gathered(VecCollect(store, now))
    /\ UNCHANGED <<auxVars, skipped, now, envVars, pc, result, origin, err, ticks,
                   skipNextScrapes, consecutiveRateLimitErrs, cfScrapes,
                   cfScrapeErrs, cfLastSuccessTimestampSeconds, zonesActive,
                   scrapeLock, passVars, lastSeenBucketTimes, store, ledger,
                   passAdds, halfSeen, faults>>

Next ==
    \/ InitializeVectors
    \/ InitialScrape
    \/ \E d \in TickGapsAt(ticks) : Tick(d)
    \/ CtxDone
    \/ Cancel
    \/ GetZones
    \/ Query
    \/ Extract
    \/ Collect

Spec == Init /\ [][Next]_vars

\* The exporter in development mode against one busy key: the firewall
\* events of one zone under one label value, among them a malformed one.
ReplayUniverse ==
    {r \in Universe : r.kind = 2 /\ r.label = "a"}

ReplaySources ==
    {S \in SubsetsUpTo(ReplayUniverse, MaxReplay) : WellFormedSource(S)}

InitReplay == InitFrom(ReplaySources, {TRUE}, MaxReplay)

SpecReplay == InitReplay /\ [][Next]_vars

----------------------------------------------------------------------------
\* The metric store driven alone, as timestamped_metric_test.go drives it:
\* points are created, set and added to with observation times at or shortly
\* before the wall clock, the clock advances, and the store is collected.

StorePoints == {<<metricOf[1], zoneNames["z1"], "a">>,
                <<metricOf[2], zoneNames["z1"], "a">>}
Stamps(t) == {t, t - 1}

InitStore == Init /\ source = {} /\ ~initialScrapeImmediately

StoreFrame ==
    UNCHANGED <<envVars, pc, result, origin, err, skipNextScrapes,
                consecutiveRateLimitErrs, cfScrapes, cfScrapeErrs,
                cfLastSuccessTimestampSeconds, zonesActive, scrapeLock,
                passVars, lastSeenBucketTimes, ledger, passAdds, observed,
                halfSeen, skipped, parse, faults>>

\* vec.WithLabelValues(...) on a new label set
StoreTouch(p) ==
    /\ p \notin DOMAIN store
    /\ store' = WithLabelValues(store, p)
    /\ conc' = [conc EXCEPT !.w = Call("WithLabelValues", p, 0, 0)]
    /\ emitted' = NotGathered
    /\ UNCHANGED <<now, ticks>>
    /\ StoreFrame

\* vec.WithLabelValues(...).Add(v, ts)
StoreAdd(p, v, ts) ==
    /\ Value(store, p) + v <= MaxEvents
    /\ store' = AddTo(store, p, v, ts)
    /\ conc' = [conc EXCEPT !.w = Call("Add", p, v, ts)]
    /\ emitted' = NotGathered
    /\ UNCHANGED <<now, ticks>>
    /\ StoreFrame

\* vec.WithLabelValues(...).Set(v, ts)
StoreSet(p, v, ts) ==
    /\ store' = [WithLabelValues(store, p) EXCEPT ![p] = Set(@, v, ts)]
    /\ conc' = [conc EXCEPT !.w = Call("Set", p, v, ts)]
    /\ emitted' = NotGathered
    /\ UNCHANGED <<now, ticks>>
    /\ StoreFrame

\* time passes
StoreClock(d) ==
    /\ ticks < MaxTicks
    /\ ticks' = ticks + 1
    /\ now' = now + d
    /\ emitted' = NotGathered
    /\ UNCHANGED <<store, conc>>
    /\ StoreFrame

\* testutil.CollectAndCompare / the registry: vec.Collect(ch)
StoreCollect ==
    /\ emitted' = Gathered(VecCollect(store, now))
    /\ UNCHANGED <<now, ticks, store, conc>>
    /\ StoreFrame

NextStore ==
    \/ \E p \in StorePoints : StoreTouch(p)
    \/ \E p \in StorePoints, ts \in Stamps(now) : StoreAdd(p, 1, ts)
    \/ \E p \in StorePoints, ts \in Stamps(now) : StoreSet(p, 1, ts)
    \/ \E d \in TickGaps : StoreClock(d)
    \/ StoreCollect

SpecStore == InitStore /\ [][NextStore]_vars

----------------------------------------------------------------------------
\* The label-keyed map of a TimestampedMetricVec.  A label value is a string,
\* kept as the sequence of its characters; the vector has two labels.

LabelChars == {"a", "!"}

\* the label values handed to WithLabelValues: strings of up to MaxLabelLen
\* characters
LabelValues == UNION {[1..n -> LabelChars] : n \in 0..MaxLabelLen}

LabelSeqs == {<<x, y>> : x \in LabelValues, y \in LabelValues}

\* strings.Join(elems, sep)
RECURSIVE Join(_, _)
Join(elems, sep) ==
    IF elems = <<>> THEN <<>>
    ELSE IF Len(elems) = 1 THEN elems[1]
    ELSE elems[1] \o sep \o Join(Tail(elems), sep)

\* hashLabels: the key of the map is the SHA-1 of the joined label values;
\* the digest is taken to be collision free and the joined string stands
\* for it.
hashLabels(labels) == Join(labels, <<"!", "!", "!">>)

\* the point WithLabelValues(labels...) returns
PointOf(st, labels) == st[hashLabels(labels)]

InitVec == Init /\ source = {} /\ ~initialScrapeImmediately

\* vec.WithLabelValues(labels...).Add(1, now)
VecAdd(labels) ==
    /\ Cardinality(conc.created \cup {labels}) <= MaxEvents
    /\ \A h \in DOMAIN store : store[h].value < MaxEvents
    /\ store' = AddTo(store, hashLabels(labels), 1, now)
    /\ conc' = [conc EXCEPT !.w = Call("Add", labels, 1, now),
                            !.created = @ \cup {labels}]
    /\ emitted' = NotGathered
    /\ UNCHANGED <<now, ticks>>
    /\ StoreFrame

\* TimestampedMetricVec.Collect
VecGather ==
    /\ ~emitted.gathered
    /\ emitted' = Gathered(VecCollect(store, now))
    /\ UNCHANGED <<now, ticks, store, conc>>
    /\ StoreFrame

NextVec ==
    \/ \E labels \in LabelSeqs : VecAdd(labels)
    \/ VecGather

SpecVec == InitVec /\ [][NextVec]_vars

----------------------------------------------------------------------------
\* The store under two goroutines: the ingestion pass writes a point while
\* the exposition handler gathers.  Neither TimestampedMetricVec nor
\* TimestampedMetric holds a lock, so the statements of the two interleave:
\* the steps below are the single reads and writes of the fields and of the
\* map.

InitRace == Init /\ source = {} /\ ~initialScrapeImmediately

RaceFrame == StoreFrame /\ UNCHANGED <<now, ticks>>

\* the state of point p as the last completed call left it
Committed(p) ==
    IF conc.w.pc # "idle" /\ conc.w.point = p THEN conc.w.before ELSE store[p]

\* vec.WithLabelValues(p) of the writer (lines 168-179): the map lookup and,
\* for a new label set, the map insert; the call of Add or Set on the point
\* begins
RaceWithLabelValues(op, p, ts) ==
    /\ conc.w.pc = "idle"
    /\ op = "Add" => Value(store, p) < MaxEvents
    /\ store' = WithLabelValues(store, p)
    /\ conc' = [conc EXCEPT
                  !.w = [pc |-> "value", op |-> op, point |-> p, v |-> 1,
                         ts |-> ts, before |-> store'[p]],
                  \* range over a map that grows: the new key may or may not
                  \* be produced by the iteration
                  !.r.left = IF conc.r.pc # "idle" /\ p \notin DOMAIN store
                             THEN @ \cup {p} ELSE @]
    /\ emitted' = NotGathered
    /\ RaceFrame

\* the same insert, the iteration under way not producing the new key
RaceInsertUnseen(op, p, ts) ==
    /\ conc.w.pc = "idle"
    /\ conc.r.pc # "idle"
    /\ p \notin DOMAIN store
    /\ store' = WithLabelValues(store, p)
    /\ conc' = [conc EXCEPT
                  !.w = [pc |-> "value", op |-> op, point |-> p, v |-> 1,
                         ts |-> ts, before |-> store'[p]]]
    /\ emitted' = NotGathered
    /\ RaceFrame

\* lines 116 and 121: m.value = value, m.value += value
RaceWriteValue ==
    /\ conc.w.pc = "value"
    /\ store' = [store EXCEPT ![conc.w.point].value =
                    IF conc.w.op = "Add" THEN @ + conc.w.v ELSE conc.w.v]
    /\ conc' = [conc EXCEPT !.w.pc = "timestamp"]
    /\ UNCHANGED emitted
    /\ RaceFrame

\* lines 117 and 122: m.timestamp = timestamp; the call returns
RaceWriteTimestamp ==
    /\ conc.w.pc = "timestamp"
    /\ store' = [store EXCEPT ![conc.w.point].timestamp = conc.w.ts]
    /\ conc' = [conc EXCEPT
                  !.w = NoConc.w,
                  !.snaps = IF conc.r.pc \in {"age", "value"}
                               /\ conc.r.point = conc.w.point
                            THEN @ \cup {store'[conc.w.point]} ELSE @]
    /\ UNCHANGED emitted
    /\ RaceFrame

\* TimestampedMetricVec.Collect, line 186: the range over the map begins
RaceCollect ==
    /\ conc.r.pc = "idle"
    /\ conc' = [conc EXCEPT !.r = [pc |-> "range", left |-> DOMAIN store,
                                   point |-> <<>>, timestamp |-> 0, out |-> {}]]
    /\ emitted' = NotGathered
    /\ UNCHANGED store
    /\ RaceFrame

\* line 186-187 and TimestampedMetric.Collect line 132: the next point of the
\* range, timestamp := m.timestamp; or the range is over
RaceRange ==
    /\ conc.r.pc = "range"
    /\ IF conc.r.left = {}
       THEN /\ emitted' = Gathered(conc.r.out)
            /\ conc' = [conc EXCEPT !.r = NoConc.r, !.snaps = {}]
       ELSE /\ \E p \in conc.r.left :
                 conc' = [conc EXCEPT
                            !.r.pc = "age",
                            !.r.left = @ \ {p},
                            !.r.point = p,
                            !.r.timestamp = store[p].timestamp,
                            !.snaps = {Committed(p)}]
            /\ UNCHANGED emitted
    /\ UNCHANGED store
    /\ RaceFrame

\* lines 133-142: the zero timestamp is replaced by the clock, then the age
\* of m.timestamp, read again, decides whether the point is reported
RaceAge ==
    /\ conc.r.pc = "age"
    /\ conc' = [conc EXCEPT
                  !.r.timestamp = IF @ = ZeroTime THEN now ELSE @,
                  !.r.pc = IF now - metricsMaxAge > store[conc.r.point].timestamp
                           THEN "range" ELSE "value"]
    /\ UNCHANGED <<store, emitted>>
    /\ RaceFrame

\* lines 144-146: m.value is read and the sample is sent
RaceSend ==
    /\ conc.r.pc = "value"
    /\ conc' = [conc EXCEPT
                  !.r.pc = "range",
                  !.r.out = @ \cup {[point |-> conc.r.point,
                                     value |-> store[conc.r.point].value,
                                     timestamp |-> conc.r.timestamp]}]
    /\ UNCHANGED <<store, emitted>>
    /\ RaceFrame

NextRace ==
    \/ \E op \in {"Add", "Set"}, p \in StorePoints, ts \in Stamps(now) :
          RaceWithLabelValues(op, p, ts)
    \/ \E op \in {"Add", "Set"}, p \in StorePoints, ts \in Stamps(now) :
          RaceInsertUnseen(op, p, ts)
    \/ RaceWriteValue
    \/ RaceWriteTimestamp
    \/ RaceCollect
    \/ RaceRange
    \/ RaceAge
    \/ RaceSend

SpecRace == InitRace /\ [][NextRace]_vars

----------------------------------------------------------------------------
\* parseZoneIDs (parsing.go), applied to the body of a zones response

ZoneStatuses == {"active", "pending"}

\* an element of zonesResp.Result
ZoneEntries == [id : Zones, name : {zoneNames[z] : z \in Zones}, status : ZoneStatuses]

SeqsUpTo(S, n) == UNION {[1..m -> S] : m \in 0..n}

\* a body json.Decode rejects
BadBody == [ok |-> FALSE, result |-> <<>>]

\* the bodies handed to parseZoneIDs: zonesResp documents and a malformed one
ZoneBodies ==
    {[ok |-> TRUE, result |-> r] : r \in SeqsUpTo(ZoneEntries, MaxResult)}
        \cup {BadBody}

\* the zone filters: no filter, one name, both names
ZoneFilters == {<<>>, <<"n1">>, <<"n2">>, <<"n1", "n2">>}

ErrDecode == "unexpected end of JSON input"

\* contains(zonesFilter, name): the name is an element of the slice
contains(slice, x) == \E i \in DOMAIN slice : slice[i] = x

\* variant: the status of the zone is not looked at
RetainedAnyStatus(zone, zonesFilter) ==
    Len(zonesFilter) = 0 \/ contains(zonesFilter, zone.name)

\* line 17: the condition under which a zone enters the map
Retained(zone, zonesFilter) ==
    zone.status # "pending"
        /\ (Len(zonesFilter) = 0 \/ contains(zonesFilter, zone.name))

\* lines 15-20: the loop over list = zoneList.Result from element i on; a later
\* element with the id of an earlier one overwrites its entry
RECURSIVE ZoneMap(_, _, _, _)
ZoneMap(list, zonesFilter, zs, i) ==
    IF i > Len(list) THEN zs
    ELSE ZoneMap(list, zonesFilter,
                 IF Retained(list[i], zonesFilter)
                 THEN (list[i].id :> list[i].name) @@ zs
                 ELSE zs,
                 i + 1)

parseZoneIDs(apiRespBody, zonesFilter) ==
    IF ~apiRespBody.ok
    THEN [zones |-> <<>>, err |-> ErrDecode]
    ELSE [zones |-> ZoneMap(apiRespBody.result, zonesFilter, <<>>, 1),
          err |-> NoErr]

\* the call of parseZoneIDs of a behaviour
ParseZones(body, filter) ==
    /\ parse = NoParse
    /\ parse' = [apiRespBody |-> body, zonesFilter |-> filter,
                 zones |-> parseZoneIDs(body, filter).zones,
                 err |-> parseZoneIDs(body, filter).err]
    /\ UNCHANGED <<now, ticks, store, conc, emitted>>
    /\ UNCHANGED <<source, cancelled, initialScrapeImmediately, pc, result,
                   origin, err, skipNextScrapes, consecutiveRateLimitErrs,
                   cfScrapes, cfScrapeErrs, cfLastSuccessTimestampSeconds,
                   zonesActive, scrapeLock, passVars, lastSeenBucketTimes,
                   ledger, passAdds, observed, halfSeen, skipped, faults>>

InitZones == Init /\ source = {} /\ ~initialScrapeImmediately

NextZones == \E body \in ZoneBodies, filter \in ZoneFilters : ParseZones(body, filter)

SpecZones == InitZones /\ [][NextZones]_vars

----------------------------------------------------------------------------
\* Properties

RECURSIVE SumCounts(_)
SumCounts(S) ==
    IF S = {} THEN 0
    ELSE LET e == CHOOSE x \in S : TRUE IN e[3] + SumCounts(S \ {e})

\* the distinct records ever added to point p
LedgerOf(p) == {e \in ledger : e[1] = p}

\* scrapeCloudflareOnce returns in this step
PassReturns == scrapeLock /\ ~scrapeLock'

TickPassReturns == PassReturns /\ origin = "tick"

\* C1: while every pass so far has succeeded, each record has been added at
\* most once: the value of every metric point equals the sum of the counts
\* of the distinct records added to it, however often the overlapping query
\* windows returned them.
C1_NoDoubleCounting ==
    cfScrapeErrs = 0 =>
        \A p \in DOMAIN store : store[p].value = SumCounts(LedgerOf(p))

\* a second successful pass has queried again from 5 minutes before the
\* watermark that the first pass set from a record it counted
C1_Witness ==
    /\ pc = "loop"
    /\ cfScrapes = 2
    /\ cfScrapeErrs = 0
    /\ now = StartTime + 2 * scrapeInterval
    /\ \E p \in DOMAIN store :
          store[p].value = 1 /\ store[p].timestamp = StartTime + scrapeInterval

\* the times of the well-formed groups of the response in flight
PageTimes ==
    IF Len(gqlResp.zones) = 1
    THEN {gqlResp.zones[1].groups[i].datetime.t :
            i \in {j \in DOMAIN gqlResp.zones[1].groups :
                      gqlResp.zones[1].groups[j].datetime.wf}}
    ELSE {}

RECURSIVE NewerCounts(_, _, _, _, _)
NewerCounts(groups, metric, zname, t, p) ==
    IF groups = <<>> THEN 0
    ELSE LET g == Head(groups)
             mine == {j \in DOMAIN g.entries :
                         <<metric, zname, g.entries[j].label>> = p}
         IN (IF g.datetime.t > t
             THEN SumCounts({<<j, j, g.entries[j].count>> : j \in mine})
             ELSE 0)
            + NewerCounts(Tail(groups), metric, zname, t, p)

AllPoints == {<<metricOf[k], zoneNames[z], l>> : k \in Kinds, z \in Zones, l \in Labels}

\* this step extracts a page whose datetimes all parse
ExtractsPage ==
    /\ pc = "extract"
    /\ pc' # "extract"
    /\ Len(gqlResp.zones) = 1
    /\ \A i \in DOMAIN gqlResp.zones[1].groups :
          gqlResp.zones[1].groups[i].datetime.wf

\* C3: a page that is extracted without error adds, to every point, the
\* counts of all its records newer than lastSeen, and nothing else.
C3_EveryNewerRecordCounted ==
    [][ExtractsPage => \A p \in AllPoints :
                Value(store', p) - Value(store, p) =
                   NewerCounts(gqlResp.zones[1].groups, metricOf[kind],
                               zoneNames[gqlResp.zones[1].zoneTag],
                               lastDateTimeCounted, p)]_vars

\* C4: a pass that returns an error from a page leaves the watermarks and
\* the metric store as they were before that page.
C4_FailingPageAllOrNothing ==
    [][(PassReturns /\ err' # NoErr /\ pc \in {"query", "extract"})
          => /\ lastSeenBucketTimes' = lastSeenBucketTimes
             /\ store' = store
             /\ cfScrapeErrs' = cfScrapeErrs + 1]_vars

\* C5: no gathering of the metrics has seen some but not all of the
\* additions of one pass.
C5_NoHalfUpdatedPass == ~halfSeen

\* C6: a pass run on a tick that fails with a message containing "limit"
\* adds one to consecutiveRateLimitErrs and sets skipNextScrapes to it.
C6_AdditiveBackoff ==
    [][(TickPassReturns /\ ContainsLimit(err'))
          => /\ consecutiveRateLimitErrs' = consecutiveRateLimitErrs + 1
             /\ skipNextScrapes' = consecutiveRateLimitErrs']_vars

\* the second consecutive rate-limit failure has set skip to 2
C6_Witness ==
    /\ pc = "loop"
    /\ ContainsLimit(err)
    /\ consecutiveRateLimitErrs = 2
    /\ skipNextScrapes = 2

\* C7: a tick while skipNextScrapes > 0 decrements it by one and changes
\* nothing else but the clock: no pass, no lock, no query, no counter.
C7_SkippedTick ==
    [][(pc = "loop" /\ skipNextScrapes > 0 /\ ticks' # ticks)
          => /\ skipNextScrapes' = skipNextScrapes - 1
             /\ UNCHANGED <<pc, result, origin, err, consecutiveRateLimitErrs,
                            cfScrapes, cfScrapeErrs,
                            cfLastSuccessTimestampSeconds, zonesActive,
                            scrapeLock, passVars, lastSeenBucketTimes, store,
                            ledger, faults>>]_vars

\* a tick has been skipped: more ticks than passes, the skip count used up
C7_Witness ==
    /\ pc = "loop"
    /\ ticks > cfScrapes
    /\ ContainsLimit(err)
    /\ consecutiveRateLimitErrs = 1
    /\ skipNextScrapes = 0

\* C8: a pass run on a tick that succeeds leaves both backoff counters zero.
C8_SuccessResets ==
    [][(TickPassReturns /\ err' = NoErr)
          => /\ consecutiveRateLimitErrs' = 0
             /\ skipNextScrapes' = 0]_vars

\* a pass has succeeded on a tick after a rate-limited pass and its skipped
\* tick
C8_Witness ==
    /\ pc = "loop"
    /\ origin = "tick"
    /\ err = NoErr
    /\ cfScrapeErrs > 0
    /\ ticks > cfScrapes
    /\ consecutiveRateLimitErrs = 0
    /\ skipNextScrapes = 0

\* C9: a pass run on a tick that returns an error adds one to cfScrapeErrs
\* and leaves the loop waiting for the next tick; the loop is left only
\* through the cancelled context, returning nil.
C9_ErrorKeepsLoop ==
    [][/\ (TickPassReturns /\ err' # NoErr)
            => /\ cfScrapeErrs' = cfScrapeErrs + 1
               /\ pc' = "loop"
               /\ result' = "running"
       /\ (pc # "init" /\ pc' = "done")
            => (cancelled /\ result' = NoErr)]_vars

\* two passes run on ticks have failed and the loop is still waiting
C9_Witness ==
    /\ pc = "loop"
    /\ origin = "tick"
    /\ err \notin {NoErr, "none"}
    /\ cfScrapeErrs = 2
    /\ ~cancelled
    /\ result = "running"

\* C10: scrapeCloudflare never returns a non-nil error.
C10_NeverReturnsError == result \in {"running", NoErr}

----------------------------------------------------------------------------
\* The fetcher, page by page

\* what the extraction function returns for the response in flight
PageResult ==
    extract(kind, gqlResp.zones[1], zoneNames, lastDateTimeCounted, store)

\* this step processes the page in flight successfully
ProcessesPage ==
    /\ pc = "extract"
    /\ pc' # "extract"
    /\ Len(gqlResp.zones) = 1
    /\ PageResult.err = NoErr

\* the key of the page in flight
PageZone == gqlResp.zones[1].zoneTag

\* C11: after every successfully processed page the stored watermark of the
\* key is at most maxTimeWindow behind now, and it is exactly
\* now - maxTimeWindow when the watermark returned by the extraction was
\* further behind.
C11_WindowCapped ==
    [][ProcessesPage =>
         LET w == lastSeenBucketTimes'[kind][PageZone]
         IN /\ now - w <= maxTimeWindow
            /\ (now - PageResult.last > maxTimeWindow) => w = now - maxTimeWindow
            /\ (now - PageResult.last <= maxTimeWindow) => w = PageResult.last]_vars

\* two passes without error, the second more than an hour after the first:
\* every key without new records has been capped to now - maxTimeWindow
C11_Witness ==
    /\ pc = "loop"
    /\ cfScrapes = 2
    /\ cfScrapeErrs = 0
    /\ now = StartTime + scrapeInterval + maxTimeWindow
    /\ \E k \in Kinds, z \in Zones : lastSeenBucketTimes[k][z] = now - maxTimeWindow
    /\ \A k \in Kinds, z \in Zones : now - lastSeenBucketTimes[k][z] <= maxTimeWindow

\* the page in flight holds no record newer than the watermark read for it
NoQualifying ==
    \A i \in DOMAIN gqlResp.zones[1].groups :
        gqlResp.zones[1].groups[i].datetime.t <= lastDateTimeCounted

\* C12 as stated: a page without qualifying record leaves the table entry of
\* its key at the value it held before the page was fetched, or caps it to
\* now - maxTimeWindow.
C12_EntryUntouched ==
    [][(ProcessesPage /\ NoQualifying) =>
         LET old == lastSeenBucketTimes[kind][PageZone]
             new == lastSeenBucketTimes'[kind][PageZone]
         IN \/ new = old
            \/ now - old > maxTimeWindow /\ new = now - maxTimeWindow]_vars

\* C12 amended: a page without qualifying record stores the watermark that
\* was read for its key before the page was fetched (the table entry, or
\* now - scrapeInterval when the entry was unset), or caps it to
\* now - maxTimeWindow when that is more than maxTimeWindow behind now; it
\* never stores an earlier time than the entry held.
C12_LastSeenKept ==
    [][(ProcessesPage /\ NoQualifying) =>
         LET old == lastSeenBucketTimes[kind][PageZone]
             new == lastSeenBucketTimes'[kind][PageZone]
             read == IF old = ZeroTime THEN now - scrapeInterval ELSE old
         IN /\ new >= old
            /\ \/ new = read
               \/ now - read > maxTimeWindow /\ new = now - maxTimeWindow]_vars

\* a second pass has re-read, inside the grace period, the record its
\* watermark stands at, and kept the watermark; other keys were set from
\* the clock by their first, empty page
C12_Witness ==
    /\ pc = "loop"
    /\ cfScrapes = 2
    /\ cfScrapeErrs = 0
    /\ now = StartTime + 2 * scrapeInterval
    /\ \E k \in Kinds, z \in Zones : lastSeenBucketTimes[k][z] \in RecTimes
    /\ \E k \in Kinds, z \in Zones :
          lastSeenBucketTimes[k][z] = StartTime

\* the response in flight is a page whose records all parse and all lie at
\* or before the watermark handed to the extraction function
StalePage ==
    /\ pc = "extract"
    /\ Len(gqlResp.zones) = 1
    /\ \A i \in DOMAIN gqlResp.zones[1].groups :
          gqlResp.zones[1].groups[i].datetime.wf
    /\ NoQualifying

\* C13: extracting a page whose records all lie at or before the watermark
\* passed in adds nothing to any point and returns that watermark; running
\* the extraction again on the same page with the returned watermark does
\* the same.
C13_IdempotentRepoll ==
    [][(StalePage /\ pc' # "extract") =>
         LET x == PageResult
             y == extract(kind, gqlResp.zones[1], zoneNames, x.last, store')
         IN /\ x.err = NoErr
            /\ x.adds = 0
            /\ x.last = lastDateTimeCounted
            /\ store' = store
            /\ ledger' = ledger
            /\ y.err = NoErr
            /\ y.adds = 0
            /\ y.last = x.last
            /\ y.store = store']_vars

\* the record of 4 minutes after the start was counted by the first pass;
\* the second pass got it again inside its grace period and left the point
\* alone
C13_Witness ==
    /\ pc = "loop"
    /\ cfScrapes = 2
    /\ cfScrapeErrs = 0
    /\ now = StartTime + 2 * scrapeInterval
    /\ Cardinality(ledger) = 1
    /\ \E p \in DOMAIN store :
          store[p] = [value |-> 1, timestamp |-> StartTime + 4]

\* this step issues a query and gets a response
IssuesQuery == pc = "query" /\ pc' = "extract"

\* C14: a query for a key whose table entry is unset uses
\* now - scrapeInterval as lastSeen, and a set entry is used as it is: the
\* zero time is never used; a successfully processed page leaves the entry
\* of its key set, so the next query of the key reads the entry.
C14_LazyInit ==
    [][/\ IssuesQuery =>
            LET stored == lastSeenBucketTimes[kind][cur']
            IN /\ lastDateTimeCounted' # ZeroTime
               /\ stored = ZeroTime => lastDateTimeCounted' = now - scrapeInterval
               /\ stored # ZeroTime => lastDateTimeCounted' = stored
       /\ ProcessesPage => lastSeenBucketTimes'[kind][PageZone] # ZeroTime]_vars

\* after two passes without error, the second a tick after the first, every
\* key still holds the watermark derived once, in the first pass
C14_Witness ==
    /\ pc = "loop"
    /\ cfScrapes = 2
    /\ cfScrapeErrs = 0
    /\ source = {}
    /\ now = StartTime + 2 * scrapeInterval
    /\ \A k \in Kinds, z \in Zones : lastSeenBucketTimes[k][z] = StartTime

\* C15: every query carries the zone of the loop, start_time = lastSeen
\* minus the 5-minute grace period, where lastSeen is the watermark read
\* for the key in this iteration, and limit = apiMaxLimit; a page that
\* answers it holds at most apiMaxLimit records, all later than start_time.
C15_QueryBounds ==
    [][IssuesQuery =>
         LET stored == lastSeenBucketTimes[kind][cur']
             lastSeen == IF stored = ZeroTime THEN now - scrapeInterval ELSE stored
         IN /\ req'.zone = cur'
            /\ req'.start_time = lastSeen - 5
            /\ req'.limit = apiMaxLimit
            /\ \A i \in DOMAIN gqlResp'.zones :
                 /\ Len(gqlResp'.zones[i].groups) <= apiMaxLimit
                 /\ \A j \in DOMAIN gqlResp'.zones[i].groups :
                      gqlResp'.zones[i].groups[j].datetime.t > req'.start_time]_vars

\* a query of the second pass starts 5 minutes before the watermark that
\* the first pass took from a record, and gets that record again
C15_Witness ==
    /\ pc = "extract"
    /\ cfScrapes = 2
    /\ now = StartTime + 2 * scrapeInterval
    /\ lastSeenBucketTimes[kind][cur] = StartTime + 4
    /\ req = [zone |-> cur, start_time |-> StartTime - 1, limit |-> apiMaxLimit]
    /\ Len(gqlResp.zones) = 1
    /\ Len(gqlResp.zones[1].groups) = 1

\* C16: after a successfully processed page the fetcher queries the same
\* key again exactly when the page held apiMaxLimit records, and otherwise
\* leaves the key; a repeated query of a key reads the watermark stored
\* after the previous page and starts 5 minutes before it.
C16_PaginationStep ==
    [][/\ ProcessesPage =>
            LET n == Len(gqlResp.zones[1].groups)
                again == pc' = "query" /\ cur' = cur /\ kind' = kind
            IN /\ (n = apiMaxLimit) <=> again
               /\ (n < apiMaxLimit) =>
                    (cur' = NoZone /\ (kind' = kind => cur \notin todo'))
       /\ (IssuesQuery /\ cur # NoZone) =>
            /\ cur' = cur
            /\ lastSeenBucketTimes[kind][cur] # ZeroTime
            /\ lastDateTimeCounted' = lastSeenBucketTimes[kind][cur]
            /\ req'.zone = cur
            /\ req'.start_time = lastSeenBucketTimes[kind][cur] - 5]_vars

\* in the first pass a full page has been counted and the same key has been
\* queried again from the watermark that page stored
C16_Witness ==
    /\ pc = "extract"
    /\ cfScrapes = 1
    /\ cur # NoZone
    /\ passAdds = apiMaxLimit
    /\ lastSeenBucketTimes[kind][cur] = StartTime + 5
    /\ lastDateTimeCounted = StartTime + 5
    /\ req.start_time = StartTime

\* C17: only a successfully processed page changes the watermark table; in
\* particular the step in which a pass returns an error (a failed call, the
\* pass timeout, a bad response, a parse error) leaves every entry as the
\* last successful page left it.
C17_ErrorKeepsWatermarks ==
    [][/\ ~ProcessesPage => lastSeenBucketTimes' = lastSeenBucketTimes
       /\ (PassReturns /\ err' # NoErr) => lastSeenBucketTimes' = lastSeenBucketTimes
       /\ ProcessesPage =>
            \A k \in Kinds, z \in Zones :
                <<k, z>> # <<kind, PageZone>> =>
                    lastSeenBucketTimes'[k][z] = lastSeenBucketTimes[k][z]]_vars

\* the first pass has failed after a page advanced one watermark to the
\* time of a record: that entry is kept and the keys not reached are unset
C17_Witness ==
    /\ pc = "loop"
    /\ cfScrapes = 1
    /\ cfScrapeErrs = 1
    /\ err \in {ErrDeadline, ErrLimit, ErrCanceled, ErrParse, ErrZoneCount}
    /\ \E k \in Kinds, z \in Zones : lastSeenBucketTimes[k][z] \in RecTimes
    /\ \E k \in Kinds, z \in Zones : lastSeenBucketTimes[k][z] = ZeroTime

\* C18: a response that holds no zone, or more than one, makes the pass
\* return an error: nothing is extracted, no watermark changes, the error
\* is counted, and scrapeCloudflare stays in its loop.
C18_ZoneCountError ==
    [][(pc = "extract" /\ pc' # "extract" /\ Len(gqlResp.zones) # 1) =>
         /\ PassReturns
         /\ err' \notin {NoErr, "none"}
         /\ store' = store
         /\ ledger' = ledger
         /\ lastSeenBucketTimes' = lastSeenBucketTimes
         /\ cfScrapeErrs' = cfScrapeErrs + 1
         /\ pc' = "loop"
         /\ result' = "running"]_vars

\* a pass run on a tick got two zones in a response after it had counted a
\* record, returned the error, and the loop waits for the next tick
C18_Witness ==
    /\ pc = "loop"
    /\ origin = "tick"
    /\ err = ErrZoneCountMany
    /\ result = "running"
    /\ cfScrapeErrs = 1
    /\ \E p \in DOMAIN store : store[p].value = 1
    /\ \E k \in Kinds, z \in Zones : lastSeenBucketTimes[k][z] \in RecTimes

----------------------------------------------------------------------------
\* The metric store

\* this step is a gathering
Gathers == ~emitted.gathered /\ emitted'.gathered

\* the samples of point p in the gathering of this step
SamplesOf(p) == {[value |-> c.value, timestamp |-> c.timestamp] :
                    c \in {e \in emitted'.samples : e.point = p}}

\* C19: a gathering emits nothing for a point whose observation timestamp
\* is more than 15 minutes before the wall clock, and for a point whose
\* timestamp is at most 15 minutes old it emits one sample, the value of
\* the point with exactly that timestamp.
C19_StalenessSuppression ==
    [][Gathers =>
         \A p \in DOMAIN store :
            LET m == store[p]
            IN m.timestamp # ZeroTime =>
                 /\ (now - m.timestamp > 15) => SamplesOf(p) = {}
                 /\ (now - m.timestamp <= 15) =>
                       SamplesOf(p) = {[value |-> m.value, timestamp |-> m.timestamp]}]_vars

\* a gathering has emitted the point observed exactly 15 minutes ago and
\* has left out the point observed 16 minutes ago
C19_Witness ==
    /\ emitted.gathered
    /\ \E p, q \in DOMAIN store :
          /\ store[p].value = 1
          /\ now - store[p].timestamp = 15
          /\ [point |-> p, value |-> 1, timestamp |-> now - 15] \in emitted.samples
          /\ store[q].value = 1
          /\ now - store[q].timestamp = 16
          /\ \A e \in emitted.samples : e.point # q

\* C20: a gathering emits every point that was created but never set or
\* added to, with the wall clock as its timestamp.
C20_NeverSetEmitted ==
    [][Gathers =>
         \A p \in DOMAIN store :
            store[p] = NewMetric =>
               SamplesOf(p) = {[value |-> 0, timestamp |-> now]}]_vars

\* a call on the store returns in this step
CallReturns == conc'.w.pc = "idle" /\ (conc'.w # conc.w \/ store' # store)

\* C21: Add(v, t) makes the value of the point the previous value plus v,
\* Set(v, t) makes it v whatever it was, both make the timestamp t, whatever
\* the wall clock is, and no other point changes.
C21_SetAndAdd ==
    [][CallReturns =>
         LET c == conc'.w
         IN /\ c.op = "Add" =>
                 store'[c.point] = [value |-> Value(store, c.point) + c.v,
                                    timestamp |-> c.ts]
            /\ c.op = "Set" =>
                 store'[c.point] = [value |-> c.v, timestamp |-> c.ts]
            /\ \A q \in DOMAIN store : q # c.point => store'[q] = store[q]]_vars

\* a point that two Adds had brought to 2 has been Set to 1 with a
\* timestamp one minute before the wall clock, after the clock had advanced
C21_Witness ==
    /\ now > StartTime
    /\ conc.w.op = "Set"
    /\ store[conc.w.point] = [value |-> 1, timestamp |-> now - 1]
    /\ \E q \in DOMAIN store :
          q # conc.w.point /\ store[q].value = 2 /\ store[q].timestamp < now - 1

----------------------------------------------------------------------------
\* Counters over the lifetime of the process

\* the counts that the extraction of the page in flight adds to point p
PageAdds(p) == SumCounts({e \in PageResult.counted : e[1] = p})

\* C22: in every step of every pass, failing or not, every counter point
\* stays in the store and its value never decreases; it changes only when a
\* page is extracted, and then by exactly the counts of the records of that
\* page that the extraction counted, which are records newer than lastSeen.
C22_CountersCumulative ==
    [][\A p \in AllPoints :
         /\ p \in DOMAIN store => p \in DOMAIN store'
         /\ Value(store', p) >= Value(store, p)
         /\ Value(store', p) # Value(store, p) =>
              /\ pc = "extract"
              /\ Len(gqlResp.zones) = 1
              /\ Value(store', p) = Value(store, p) + PageAdds(p)
              /\ PageAdds(p) <=
                    NewerCounts(gqlResp.zones[1].groups, metricOf[kind],
                                zoneNames[PageZone], lastDateTimeCounted, p)]_vars

\* a counter has grown to 2 over two passes of which at least one failed
C22_Witness ==
    /\ pc = "loop"
    /\ cfScrapes >= 2
    /\ cfScrapeErrs >= 1
    /\ \E p \in DOMAIN store : store[p].value = 2

\* C23: an addition made through one sequence of label values leaves the
\* value and the timestamp of the point of every other sequence created so
\* far unchanged.
C23_DistinctPoints ==
    [][store' # store =>
         \A labels \in conc.created :
             labels # conc'.w.point =>
                 PointOf(store', labels) = PointOf(store, labels)]_vars

----------------------------------------------------------------------------
\* The zone list

\* the elements of the response that are not pending and pass the filter
KeptZones ==
    {i \in DOMAIN parse.apiRespBody.result :
        LET zone == parse.apiRespBody.result[i]
        IN /\ zone.status # "pending"
           /\ (parse.zonesFilter = <<>>
                 \/ \E j \in DOMAIN parse.zonesFilter :
                       parse.zonesFilter[j] = zone.name)}

\* C24: for a response that decodes, the map returned by parseZoneIDs has
\* exactly the ids of the zones that are not pending and, under a non-empty
\* filter, are named in the filter, each id of the response that occurs once
\* mapped to the name of its zone; a pending zone is never in the map and,
\* without a filter, no other zone is missing from it.
C24_NonPendingZones ==
    parse.err = NoErr =>
        LET list == parse.apiRespBody.result
        IN /\ DOMAIN parse.zones = {list[i].id : i \in KeptZones}
           /\ \A id \in DOMAIN parse.zones :
                 \E i \in KeptZones :
                    list[i].id = id /\ list[i].name = parse.zones[id]
           /\ \A i \in DOMAIN list :
                 (\A j \in DOMAIN list : list[j].id = list[i].id => j = i)
                    => /\ list[i].status = "pending"
                          => list[i].id \notin DOMAIN parse.zones
                       /\ (list[i].status # "pending" /\ parse.zonesFilter = <<>>)
                          => /\ list[i].id \in DOMAIN parse.zones
                             /\ parse.zones[list[i].id] = list[i].name

\* a response with a pending and an active zone was parsed without a filter
\* and the map holds the active zone alone
C24_Witness ==
    /\ parse.err = NoErr
    /\ parse.zonesFilter = <<>>
    /\ parse.apiRespBody.result =
          <<[id |-> "z1", name |-> "n1", status |-> "active"],
            [id |-> "z2", name |-> "n2", status |-> "pending"]>>
    /\ parse.zones = ("z1" :> "n1")

----------------------------------------------------------------------------
\* Shutdown

\* C25: a pass that has started is not ended by the cancellation of the
\* scrape context: it never returns the error of a cancelled context, and
\* when it returns after the cancellation it has completed or met its own
\* deadline.
C25_CancelKeepsPass ==
    [][PassReturns =>
         /\ err' # ErrCanceled
         /\ cancelled => err' \in {NoErr, ErrDeadline}]_vars

----------------------------------------------------------------------------
\* Gathering while the pass writes

\* the state in which the call under way on point p will leave it
WriteInFlight(p) ==
    IF conc.w.pc # "idle" /\ conc.w.point = p
    THEN {IF conc.w.op = "Add"
          THEN Add(conc.w.before, conc.w.v, conc.w.ts)
          ELSE Set(conc.w.before, conc.w.v, conc.w.ts)}
    ELSE {}

\* C26: every sample a gathering sends for a point is what Collect reports
\* for a state in which a completed call left the point: the state before a
\* write that runs concurrently, or the state after it, with the decision
\* to report taken on the timestamp that is reported.
C26_ConsistentSample ==
    [][\A s \in conc'.r.out \ conc.r.out :
          \E m \in conc.snaps \cup WriteInFlight(s.point) :
             [value |-> s.value, timestamp |-> s.timestamp]
                 \in MetricCollect(m, now)]_vars

\* C27: no label set is inserted into the map of the vector while a
\* gathering iterates over it.
C27_MapSynchronised ==
    [][conc.r.pc # "idle" => DOMAIN store' = DOMAIN store]_vars

----------------------------------------------------------------------------
\* The order of a pass

\* the keys (dataset, zone) the pass has not reached yet
KeysAhead ==
    {<<k, z>> \in Kinds \X Zones : k > kind \/ (k = kind /\ z \in todo)}

\* C28: in every step of a pass the dataset stays, moves to the next one
\* (only when every zone of the current one is done) or the pass returns; a
\* new zone is taken from the zones still to do only when the previous zone
\* is finished; a query is issued for the current dataset and a zone still
\* to do, or the current zone again; the step changes no watermark but that
\* of the current key and no point but those of the current dataset and
\* zone; and a step that meets an error returns from the pass at once, so
\* the keys not yet reached get no query and keep watermarks and points.
C28_SequentialAbort ==
    [][scrapeLock =>
         /\ kind' \in {kind, kind + 1, 0}
         /\ (kind > 0 /\ kind' = 0) => ~scrapeLock'
         /\ (kind > 0 /\ kind' = kind + 1) =>
               (pc = "extract" /\ todo = {} /\ todo' = zones /\ cur' = NoZone)
         /\ (kind' = kind /\ cur' \notin {cur, NoZone}) =>
               (cur = NoZone /\ cur' \in todo /\ todo' = todo \ {cur'})
         /\ IssuesQuery =>
               (req'.zone = cur' /\ (cur' = cur \/ <<kind, cur'>> \in KeysAhead))
         /\ \A k \in Kinds, z \in Zones :
               <<k, z>> # <<kind, cur>> =>
                   lastSeenBucketTimes'[k][z] = lastSeenBucketTimes[k][z]
         /\ \A p \in AllPoints :
               (kind = 0 \/ cur = NoZone
                   \/ p[1] # metricOf[kind] \/ p[2] # zoneNames[cur]) =>
                   /\ Value(store', p) = Value(store, p)
                   /\ (p \in DOMAIN store' /\ p \in DOMAIN store)
                         => store'[p] = store[p]
         /\ (err' # err /\ err' # NoErr) => ~scrapeLock'
         /\ ~scrapeLock' => (pc' = "loop" /\ kind' = 0 /\ todo' = {})]_vars

\* the first pass was aborted by an error in the firewall dataset after the
\* HTTP dataset had been processed: the health-check dataset, for which the
\* source holds a record, was not queried, its watermarks are unset and
\* it has no point
C28_Witness ==
    /\ pc = "loop"
    /\ cfScrapes = 1
    /\ err \notin {NoErr, "none"}
    /\ \A z \in Zones : lastSeenBucketTimes[1][z] # ZeroTime
    /\ \A z \in Zones : lastSeenBucketTimes[3][z] = ZeroTime
    /\ \E r \in source : r.kind = 3 /\ r.t <= now /\ r.t > now - scrapeInterval
    /\ \A p \in DOMAIN store : p[1] # metricOf[3]

----------------------------------------------------------------------------
\* The end of the page loop

\* C29: every full page strictly advances the watermark of its key beyond
\* the lastSeen its query was made with, so the next query of the loop is
\* another one.  Stated for the firewall and health-check datasets, whose
\* groups are not limited to one per minute.
C29_FullPageAdvances ==
    [][(ProcessesPage /\ kind # 1
            /\ Len(gqlResp.zones[1].groups) = apiMaxLimit) =>
          /\ lastSeenBucketTimes'[kind][PageZone] > lastDateTimeCounted
          /\ Request(PageZone, lastSeenBucketTimes'[kind][PageZone]) # req]_vars

----------------------------------------------------------------------------
\* Backoff, tick by tick

\* the loop waits for a tick and its last pass was rate limited
RateLimited == pc = "loop" /\ origin = "tick" /\ ContainsLimit(err)

----------------------------------------------------------------------------
\* The scheduler's counters

\* the errors of a pass whose message does not contain "limit"
OtherErrs == {ErrDeadline, ErrCanceled, ErrZoneCount, ErrZoneCountMany, ErrParse}

\* C31: a pass of the loop that returns an error without "limit" in its
\* message leaves consecutiveRateLimitErrs and skipNextScrapes as they were,
\* neither incremented nor reset.
C31_OtherErrorKeepsBackoff ==
    [][(TickPassReturns /\ err' \in OtherErrs) =>
          UNCHANGED <<consecutiveRateLimitErrs, skipNextScrapes>>]_vars

\* a rate-limited pass and its skipped tick were followed by a pass that
\* failed otherwise: the count of rate-limit errors is still 1
C31_Witness ==
    /\ pc = "loop"
    /\ origin = "tick"
    /\ ticks = 3
    /\ cfScrapeErrs = 2
    /\ err \in OtherErrs
    /\ consecutiveRateLimitErrs = 1
    /\ skipNextScrapes = 0

\* C32: in every state skipNextScrapes lies between 0 and
\* consecutiveRateLimitErrs, and while it is positive no pass is running
\* and the last pass, run on a tick, returned a rate-limit error.
C32_SkipWithinCount ==
    /\ 0 <= skipNextScrapes
    /\ skipNextScrapes <= consecutiveRateLimitErrs
    /\ skipNextScrapes > 0 =>
          (~scrapeLock /\ origin = "tick" /\ ContainsLimit(err))

\* after the initial scrape of development mode the pass of the first tick
\* was rate limited: one tick is to be skipped
C32_Witness ==
    /\ pc = "loop"
    /\ initialScrapeImmediately
    /\ ticks = 1
    /\ cfScrapes = 2
    /\ err = ErrLimit
    /\ skipNextScrapes = 1
    /\ consecutiveRateLimitErrs = 1

\* C33: cfScrapes is incremented by one exactly in the step that starts a
\* pass and cfScrapeErrs by one exactly in the step in which a pass returns
\* an error, so cfScrapeErrs <= cfScrapes; every other step, a skipped tick
\* included, changes neither; the last-success gauge is written only when a
\* pass returns without error, after the last zone of the last dataset, and
\* then with the current time.
C33_PassAccounting ==
    [][/\ cfScrapes' = IF ~scrapeLock /\ scrapeLock' THEN cfScrapes + 1
                       ELSE cfScrapes
       /\ cfScrapeErrs' = IF PassReturns /\ err' # NoErr THEN cfScrapeErrs + 1
                          ELSE cfScrapeErrs
       /\ cfScrapeErrs' <= cfScrapes'
       /\ cfLastSuccessTimestampSeconds' # cfLastSuccessTimestampSeconds =>
             /\ PassReturns
             /\ err' = NoErr
             /\ pc = "extract" /\ kind = 3 /\ todo = {}
             /\ cfLastSuccessTimestampSeconds' = now]_vars

\* three ticks: a pass that failed, a skipped tick, a pass that succeeded
C33_Witness ==
    /\ pc = "loop"
    /\ ~initialScrapeImmediately
    /\ ticks = 3
    /\ cfScrapes = 2
    /\ cfScrapeErrs = 1
    /\ cfLastSuccessTimestampSeconds = now

----------------------------------------------------------------------------
\* The watermark table, key by key

\* C34: the response to a request for zone Z carries the tag Z; processing
\* it writes the entry of Z in the table of the current dataset, with the
\* time the extraction returned (capped), and changes no other entry of any
\* table; and every query reads the entry of the zone it asks for, so the
\* next iteration for Z reads what was just written.
C34_OwnEntryOnly ==
    [][/\ ProcessesPage =>
            /\ PageZone = req.zone
            /\ lastSeenBucketTimes'[kind][req.zone] =
                  CapIfStale(PageResult.last, now)
            /\ \A k \in Kinds, z \in Zones :
                  <<k, z>> # <<kind, req.zone>> =>
                      lastSeenBucketTimes'[k][z] = lastSeenBucketTimes[k][z]
       /\ IssuesQuery =>
            lastDateTimeCounted' =
                LastSeen(lastSeenBucketTimes[kind][req'.zone], now)]_vars

\* the firewall pages of zone z2 have been processed and zone z1 is still to
\* do: the entry of z2 holds the time of its record, that of z1 is unset
C34_Witness ==
    /\ pc = "query"
    /\ kind = 2
    /\ todo = {"z1"}
    /\ cur = NoZone
    /\ lastSeenBucketTimes[2]["z2"] = StartTime + 4
    /\ lastSeenBucketTimes[2]["z1"] = ZeroTime

----------------------------------------------------------------------------
\* Observation timestamps

\* the times of the records added so far to the points of dataset k, zone z
AddedTimes(k, z) ==
    {e[2] : e \in {x \in ledger : x[1][1] = metricOf[k] /\ x[1][2] = zoneNames[z]}}

\* C35: no step moves the timestamp of a point backwards, and every record
\* that a page adds carries a time strictly greater than the time of every
\* record added before for the key of the page.
C35_TimestampsForward ==
    [][/\ \A p \in DOMAIN store :
             p \in DOMAIN store' /\ store'[p].timestamp >= store[p].timestamp
       /\ (pc = "extract" /\ pc' # "extract" /\ Len(gqlResp.zones) = 1) =>
             \A e \in PageResult.counted :
                 \A t \in AddedTimes(kind, PageZone) : e[2] > t]_vars

-----------------------------------------------------------------------------
\* The scrape lock

InPass == {"getZones", "query", "extract"}

\* C36: scrapeLock is held exactly while a pass runs: a pass takes it only
\* when it is free, keeps it over every step inside the pass, and every return
\* of the pass (success or any error) releases it in the same step, so the
\* loop and the initial scrape always find it free.
C36_LockHeldForPass ==
    [][/\ scrapeLock <=> (pc \in InPass)
       /\ scrapeLock' <=> (pc' \in InPass)
       /\ (pc \notin InPass /\ pc' \in InPass) =>
              (~scrapeLock /\ scrapeLock' /\ pc' = "getZones")
       /\ (pc \in InPass /\ pc' \notin InPass) =>
              (~scrapeLock' /\ pc' = "loop"
               /\ err' \in {NoErr} \cup CallErrs \cup OtherErrs)
       /\ (pc = "loop" /\ ticks' = ticks + 1 /\ ~ShouldSkip(skipNextScrapes)) =>
              scrapeLock']_vars

\* the pass of a tick holds the lock after the pass before it failed
C36_Witness ==
    /\ scrapeLock
    /\ pc = "query"
    /\ origin = "tick"
    /\ ticks = 2
    /\ cfScrapes = 2
    /\ cfScrapeErrs = 1
    /\ err # NoErr

-----------------------------------------------------------------------------
\* Shutdown

\* The exporter in either mode against one busy key, with one event fewer
\* than in Spec.
InitFair == InitFrom(ReplaySources, BOOLEAN, MaxEvents - 1)

\* the calls of a pass return: each carries the context of the pass
PassStep == GetZones \/ Query \/ Extract

\* select chooses at random among the cases that are ready, so the case of
\* the closed context, ready whenever the loop selects, is taken in the end
SpecFair == InitFair /\ [][Next]_vars /\ WF_vars(PassStep) /\ SF_vars(CtxDone)

\* C37: once the context is cancelled while the loop runs, idle or skipping
\* or inside a pass, the loop returns nil in the end; the loop returns in no
\* other way, and a pass that meets the cancelled context at a call ends at
\* that call with "context canceled", back in the loop with the lock free.
C37_CancelledLoopReturns ==
    /\ (cancelled /\ pc \in {"loop"} \cup InPass) ~> (pc = "done" /\ result = NoErr)
    /\ [][/\ (pc = "loop" /\ pc' = "done") => (cancelled /\ result' = NoErr)
          /\ (pc \in InPass) => pc' # "done"
          /\ (cancelled /\ pc \in {"getZones", "query"} /\ pc' # pc) =>
                 (pc' = "loop" /\ err' = ErrCanceled /\ ~scrapeLock'
                  /\ UNCHANGED <<store, ledger, lastSeenBucketTimes>>)]_vars

\* the loop has returned nil out of the skipping state
C37_Witness ==
    /\ pc = "done"
    /\ result = NoErr
    /\ cancelled
    /\ skipNextScrapes > 0
    /\ consecutiveRateLimitErrs > 0
====
